---- MODULE Spec2Model ----
(***************************************************************************)
(* Model of Epiar's input pipeline (Source/Input/input.cpp) and of the     *)
(* part of the Lua wrapper it calls (Source/Utilities/lua.cpp).            *)
(*                                                                         *)
(* Input::Update is one frame.  Its body is a sequence of phases, tracked  *)
(* by pc: the SDL_PollEvent loop (one PollEvent step per raw sample), the  *)
(* held-key synthesis, the four HandleInput stages in the order of the     *)
(* code, and the tail (mouse fade, events.clear(), return).  Nothing else  *)
(* can run between the phases of a frame: the program is single-threaded,  *)
(* and RegisterCallBack / UnRegisterCallBack are enabled from outside only *)
(* while no frame is in progress (inside a frame they run only as the      *)
(* effect of a bound Lua command, see LuaDoString).                        *)
(***************************************************************************)
EXTENDS Integers, Sequences, FiniteSets, TLC

(***************************************************************************)
(* Bounds of the model.                                                    *)
(***************************************************************************)
MaxSamples == 2      \* raw SDL events polled in one frame
MaxTaken == 1        \* events one HandleInput stage removes in one frame
MaxTicks == 3        \* last value of the tick counter
MaxArgs == 4         \* arguments a script passes to one call

(***************************************************************************)
(* Enumerations.  keyState follows the order of _keyMeanings; the SDLKey   *)
(* values are the SDL 1.2 key codes the source names.                      *)
(***************************************************************************)
KEY == 0
MOUSE == 1

KEYUP == 0
KEYDOWN == 1
KEYPRESSED == 2
KEYTYPED == 3

UNHANDLED == 0
MOUSEMOTION == 1
MOUSELUP == 2
MOUSELDOWN == 3
MOUSEMUP == 4
MOUSEMDOWN == 5
MOUSERUP == 6
MOUSERDOWN == 7
MOUSEWUP == 8
MOUSEWDOWN == 9

SDL_BUTTON_LEFT == 1
SDL_BUTTON_MIDDLE == 2
SDL_BUTTON_RIGHT == 3
SDL_BUTTON_WHEELUP == 4
SDL_BUTTON_WHEELDOWN == 5

SDLK_RETURN == 13
SDLK_SPACE == 32
SDLK_ESCAPE == 27
SDLK_QUOTE == 39
SDLK_COMMA == 44
SDLK_MINUS == 45
SDLK_PERIOD == 46
SDLK_SLASH == 47
SDLK_0 == 48
SDLK_9 == 57
SDLK_SEMICOLON == 59
SDLK_EQUALS == 61
SDLK_LEFTBRACKET == 91
SDLK_BACKSLASH == 92
SDLK_RIGHTBRACKET == 93
SDLK_BACKQUOTE == 96
SDLK_a == 97
SDLK_z == 122
SDLK_KP_ENTER == 271
SDLK_F1 == 282
SDLK_RSHIFT == 303
SDLK_LSHIFT == 304
SDLK_LAST == 323

MouseFade == 1       \* OPTION(Uint32,"options/timing/mouse-fade")

(***************************************************************************)
(* InputEvent: one record shape for both kinds, as the C++ class has one   *)
(* set of fields.  The unused fields of a kind are 0.                      *)
(***************************************************************************)
KeyEvent(kstate, key) ==
    [type |-> KEY, state |-> kstate, key |-> key, mx |-> 0, my |-> 0]

MouseEvent(mstate, x, y) ==
    [type |-> MOUSE, state |-> mstate, key |-> 0, mx |-> x, my |-> y]

\* Mutant: the comparison of two mouse events stops at x.
EventLessIgnoreY(e1, e2) ==
    IF e1.type # e2.type THEN e1.type < e2.type
    ELSE IF e1.state # e2.state THEN e1.state < e2.state
    ELSE IF e1.type = KEY THEN e1.key < e2.key
    ELSE e1.mx < e2.mx

\* operator< of InputEvent: kind, then sub-state, then key code or x then y.
EventLess(e1, e2) ==
    IF e1.type # e2.type THEN e1.type < e2.type
    ELSE IF e1.state # e2.state THEN e1.state < e2.state
    ELSE IF e1.type = KEY THEN e1.key < e2.key
    ELSE IF e1.mx # e2.mx THEN e1.mx < e2.mx
    ELSE e1.my < e2.my

\* std::map equivalence of two keys under operator<.
EventEquiv(e1, e2) == ~EventLess(e1, e2) /\ ~EventLess(e2, e1)

(***************************************************************************)
(* Raw SDL events (the samples of a frame).                                *)
(***************************************************************************)
SdlQuit == [t |-> "SDL_QUIT", sym |-> 0, button |-> 0, x |-> 0, y |-> 0]
SdlKeyDown(k) == [t |-> "SDL_KEYDOWN", sym |-> k, button |-> 0, x |-> 0, y |-> 0]
SdlKeyUp(k) == [t |-> "SDL_KEYUP", sym |-> k, button |-> 0, x |-> 0, y |-> 0]
SdlMouseMotion(x, y) ==
    [t |-> "SDL_MOUSEMOTION", sym |-> 0, button |-> 0, x |-> x, y |-> y]
SdlMouseButtonDown(b, x, y) ==
    [t |-> "SDL_MOUSEBUTTONDOWN", sym |-> 0, button |-> b, x |-> x, y |-> y]
SdlMouseButtonUp(b, x, y) ==
    [t |-> "SDL_MOUSEBUTTONUP", sym |-> 0, button |-> b, x |-> x, y |-> y]

(***************************************************************************)
(* The environment of the keyboard-and-dispatch specification Spec: the    *)
(* raw events a frame can poll and the registry calls scripts make.  The   *)
(* timer does not advance in Spec and no mouse motion is polled.           *)
(***************************************************************************)
KeySyms == {SDLK_ESCAPE, SDLK_a}
PlainKeys == KeySyms \ {SDLK_ESCAPE}

SampleSet ==
    {SdlKeyDown(k) : k \in KeySyms} \cup {SdlKeyUp(k) : k \in KeySyms}
    \cup {SdlQuit}
    \cup {SdlMouseButtonDown(SDL_BUTTON_LEFT, x, 1) : x \in {1, 2}}

RegEvents ==
    {KeyEvent(KEYDOWN, SDLK_a), KeyEvent(KEYDOWN, SDLK_ESCAPE),
     MouseEvent(MOUSELDOWN, 1, 1)}

\* Command strings bound by scripts: one that runs, one that raises a Lua
\* error, one that calls Epiar.UnRegisterKey for the key-down of 'a'.
CmdOk == "ok"
CmdBad == "bad"
CmdUnreg == "unreg"
\* One more, bound in SpecLua only: a command that calls Epiar.RegisterKey to
\* bind the key-down of 'a' to CmdOk.
CmdReg == "reg"
Commands == {CmdOk, CmdBad, CmdUnreg}

\* The Register calls the scripts of the model make.
RegCalls ==
    ({KeyEvent(KEYDOWN, SDLK_a)} \X Commands)
    \cup {<<KeyEvent(KEYDOWN, SDLK_ESCAPE), CmdOk>>}
    \cup ({MouseEvent(MOUSELDOWN, 1, 1)} \X {CmdOk, CmdUnreg})

VARIABLES
    heldKeys,        \* Input::heldKeys, as the set of key codes whose flag is set
    events,          \* Input::events
    eventMappings,   \* Input::eventMappings
    lastMouseMove,   \* Input::lastMouseMove
    quitSignal,      \* local of Update; after the return, the returned value
    pc,              \* position inside Update, "idle" outside of it
    ticks,           \* Timer::GetTicks()
    mouseEnabled,    \* pointer visibility held by Video
    luaInitialized,  \* Lua::luaInitialized
    samples,         \* raw events polled so far in this frame
    translated,      \* the list as handed to UI::HandleInput in this frame
    luaRequests,     \* the Lua::Run calls of this frame, in order: [ev, cmd]
    luaLog,          \* what Lua::Run logged in this frame
    luaReturns,      \* what the Lua::Run calls of this frame returned
    lastTransition,  \* per non-escape key, its most recent raw transition
    lastCall,        \* the registry call made last since the last frame, and
                     \* whether it found the identity already bound
    scriptCall,      \* the last call of Epiar.RegisterKey / UnRegisterKey by
                     \* a script: its arguments and the Lua error it raised
    fade             \* the mouse fade test of this frame's tail: what
                     \* UI::Active() returned if it was called, the calls of
                     \* Video::DisableMouse, the pointer visibility before

vars == <<heldKeys, events, eventMappings, lastMouseMove, quitSignal, pc, ticks,
          mouseEnabled, luaInitialized, samples, translated, luaRequests,
          luaLog, luaReturns, lastTransition, lastCall, scriptCall, fade>>

(***************************************************************************)
(* Helpers on sequences and sets.                                          *)
(***************************************************************************)
RECURSIVE RemoveAt(_, _)
RemoveAt(s, S) ==
    IF s = <<>> THEN <<>>
    ELSE LET n == Len(s)
             rest == RemoveAt(SubSeq(s, 1, n - 1), S)
         IN IF n \in S THEN rest ELSE Append(rest, s[n])

RECURSIVE Ascending(_)
Ascending(S) ==
    IF S = {} THEN <<>>
    ELSE LET m == CHOOSE x \in S : \A y \in S : x <= y
         IN <<m>> \o Ascending(S \ {m})


(***************************************************************************)
(* Input::PushTypeEvent: the character a key-down is typed as, given the   *)
(* held-key table at the moment of the key-down.                           *)
(***************************************************************************)
ShiftedDigits == <<41, 33, 64, 35, 36, 37, 94, 38, 42, 40>>   \* ")!@#$%^&*("

ShiftedPunctuation(key) ==
    CASE key = SDLK_QUOTE -> 34            \* '"'
      [] key = SDLK_SEMICOLON -> 59        \* ';'
      [] key = SDLK_BACKQUOTE -> 126       \* '~'
      [] key = SDLK_MINUS -> 95            \* '_'
      [] key = SDLK_SLASH -> 63            \* '?'
      [] key = SDLK_COMMA -> 60            \* '<'
      [] key = SDLK_PERIOD -> 62           \* '>'
      [] key = SDLK_BACKSLASH -> 124       \* '|'
      [] key = SDLK_LEFTBRACKET -> 123     \* '{'
      [] key = SDLK_RIGHTBRACKET -> 125    \* '}'
      [] key = SDLK_EQUALS -> 43           \* '+'
      [] OTHER -> key

\* Mutant: only the left shift key is looked at.
TypedLetterLeftShiftOnly(held, key) ==
    LET shifted ==
            IF SDLK_LSHIFT \in held
            THEN IF key >= SDLK_a /\ key <= SDLK_z THEN key - 32
                 ELSE IF key >= SDLK_0 /\ key <= SDLK_9
                      THEN ShiftedDigits[key - SDLK_0 + 1]
                      ELSE ShiftedPunctuation(key)
            ELSE key
    IN IF key = SDLK_RETURN \/ key = SDLK_KP_ENTER THEN 10 ELSE shifted

\* Mutant: the keypad Enter key is not turned into a newline.
TypedLetterReturnOnly(held, key) ==
    LET shifted ==
            IF SDLK_LSHIFT \in held \/ SDLK_RSHIFT \in held
            THEN IF key >= SDLK_a /\ key <= SDLK_z THEN key - 32
                 ELSE IF key >= SDLK_0 /\ key <= SDLK_9
                      THEN ShiftedDigits[key - SDLK_0 + 1]
                      ELSE ShiftedPunctuation(key)
            ELSE key
    IN IF key = SDLK_RETURN THEN 10 ELSE shifted

TypedLetter(held, key) ==
    LET shifted ==
            IF SDLK_LSHIFT \in held \/ SDLK_RSHIFT \in held
            THEN IF key >= SDLK_a /\ key <= SDLK_z THEN key - 32
                 ELSE IF key >= SDLK_0 /\ key <= SDLK_9
                      THEN ShiftedDigits[key - SDLK_0 + 1]
                      ELSE ShiftedPunctuation(key)
            ELSE key
    IN IF key = SDLK_RETURN \/ key = SDLK_KP_ENTER THEN 10 ELSE shifted

PushTypeEvent(evs, held, key) ==
    Append(evs, KeyEvent(KEYTYPED, TypedLetter(held, key)))

(***************************************************************************)
(* Input::_CheckMouseState.                                                *)
(***************************************************************************)
\* Mutant: the wheel ids are handled on the button-down transition.
CheckMouseStateWheelOnDown(button, up) ==
    CASE button = SDL_BUTTON_LEFT -> IF up THEN MOUSELUP ELSE MOUSELDOWN
      [] button = SDL_BUTTON_MIDDLE -> IF up THEN MOUSEMUP ELSE MOUSEMDOWN
      [] button = SDL_BUTTON_RIGHT -> IF up THEN MOUSERUP ELSE MOUSERDOWN
      [] button = SDL_BUTTON_WHEELUP -> IF up THEN UNHANDLED ELSE MOUSEWUP
      [] button = SDL_BUTTON_WHEELDOWN -> IF up THEN UNHANDLED ELSE MOUSEWDOWN
      [] OTHER -> UNHANDLED

CheckMouseState(button, up) ==
    CASE button = SDL_BUTTON_LEFT -> IF up THEN MOUSELUP ELSE MOUSELDOWN
      [] button = SDL_BUTTON_MIDDLE -> IF up THEN MOUSEMUP ELSE MOUSEMDOWN
      [] button = SDL_BUTTON_RIGHT -> IF up THEN MOUSERUP ELSE MOUSERDOWN
      [] button = SDL_BUTTON_WHEELUP -> IF up THEN MOUSEWUP ELSE UNHANDLED
      [] button = SDL_BUTTON_WHEELDOWN -> IF up THEN MOUSEWDOWN ELSE UNHANDLED
      [] OTHER -> UNHANDLED

(***************************************************************************)
(* The per-sample handlers of the poll loop.  Each maps the translator     *)
(* state f = [events, held, quit, lastMove, pointer] to its successor;     *)
(* quit is the value the handler returns to Update.                        *)
(***************************************************************************)
\* Mutant: the key-down handler forgets to mark the key held.
UpdateHandleKeyDownNoHold(f, sym) ==
    IF sym = SDLK_ESCAPE
    THEN [f EXCEPT !.quit = TRUE]
    ELSE [f EXCEPT !.events = PushTypeEvent(Append(f.events, KeyEvent(KEYDOWN, sym)),
                                            f.held, sym),
                   !.quit = FALSE]

\* Mutant: escape falls through to the default case as well.
UpdateHandleKeyDownEmitEscape(f, sym) ==
    [f EXCEPT !.events = PushTypeEvent(Append(f.events, KeyEvent(KEYDOWN, sym)),
                                       f.held, sym),
              !.held = f.held \cup {sym},
              !.quit = (sym = SDLK_ESCAPE)]

\* Mutant: the key-down handler does not call PushTypeEvent.
UpdateHandleKeyDownNoTyped(f, sym) ==
    IF sym = SDLK_ESCAPE
    THEN [f EXCEPT !.quit = TRUE]
    ELSE [f EXCEPT !.events = Append(f.events, KeyEvent(KEYDOWN, sym)),
                   !.held = f.held \cup {sym},
                   !.quit = FALSE]

\* Mutant: the escape case marks the key held before it breaks.
UpdateHandleKeyDownHoldsEscape(f, sym) ==
    IF sym = SDLK_ESCAPE
    THEN [f EXCEPT !.held = f.held \cup {sym},
                   !.quit = TRUE]
    ELSE [f EXCEPT !.events = PushTypeEvent(Append(f.events, KeyEvent(KEYDOWN, sym)),
                                            f.held, sym),
                   !.held = f.held \cup {sym},
                   !.quit = FALSE]

\* Mutant: a key-down for a key that is already marked held is ignored.
UpdateHandleKeyDownDedup(f, sym) ==
    IF sym = SDLK_ESCAPE
    THEN [f EXCEPT !.quit = TRUE]
    ELSE IF sym \in f.held
         THEN [f EXCEPT !.quit = FALSE]
         ELSE [f EXCEPT !.events = PushTypeEvent(Append(f.events, KeyEvent(KEYDOWN, sym)),
                                                 f.held, sym),
                        !.held = f.held \cup {sym},
                        !.quit = FALSE]

\* Mutant: the key-down handler emits the Held event itself.
UpdateHandleKeyDownEmitsHeld(f, sym) ==
    IF sym = SDLK_ESCAPE
    THEN [f EXCEPT !.quit = TRUE]
    ELSE [f EXCEPT !.events = Append(PushTypeEvent(Append(f.events,
                                                          KeyEvent(KEYDOWN, sym)),
                                                   f.held, sym),
                                     KeyEvent(KEYPRESSED, sym)),
                   !.held = f.held \cup {sym},
                   !.quit = FALSE]

UpdateHandleKeyDown(f, sym) ==
    IF sym = SDLK_ESCAPE
    THEN [f EXCEPT !.quit = TRUE]
    ELSE [f EXCEPT !.events = PushTypeEvent(Append(f.events, KeyEvent(KEYDOWN, sym)),
                                            f.held, sym),
                   !.held = f.held \cup {sym},
                   !.quit = FALSE]

\* Mutant: the key-up handler leaves the held flag set.
UpdateHandleKeyUpKeepHeld(f, sym) ==
    IF sym = SDLK_ESCAPE
    THEN [f EXCEPT !.quit = TRUE]
    ELSE [f EXCEPT !.events = Append(f.events, KeyEvent(KEYUP, sym)),
                   !.quit = FALSE]

\* Mutant: the key-up handler returns the quit signal for every key.
UpdateHandleKeyUpAnyKeyQuits(f, sym) ==
    IF sym = SDLK_ESCAPE
    THEN [f EXCEPT !.quit = TRUE]
    ELSE [f EXCEPT !.events = Append(f.events, KeyEvent(KEYUP, sym)),
                   !.held = f.held \ {sym},
                   !.quit = TRUE]

\* Mutant: the key-up handler does not clear the flag of a shift key.
UpdateHandleKeyUpKeepShift(f, sym) ==
    IF sym = SDLK_ESCAPE
    THEN [f EXCEPT !.quit = TRUE]
    ELSE [f EXCEPT !.events = Append(f.events, KeyEvent(KEYUP, sym)),
                   !.held = IF sym \in {SDLK_LSHIFT, SDLK_RSHIFT}
                            THEN f.held
                            ELSE f.held \ {sym},
                   !.quit = FALSE]

UpdateHandleKeyUp(f, sym) ==
    IF sym = SDLK_ESCAPE
    THEN [f EXCEPT !.quit = TRUE]
    ELSE [f EXCEPT !.events = Append(f.events, KeyEvent(KEYUP, sym)),
                   !.held = f.held \ {sym},
                   !.quit = FALSE]

\* Mutant: the motion handler does not take the time of the motion.
UpdateHandleMouseMotionNoStamp(f, x, y, now) ==
    [f EXCEPT !.events = Append(f.events, MouseEvent(MOUSEMOTION, x, y)),
              !.pointer = TRUE]

UpdateHandleMouseMotion(f, x, y, now) ==
    [f EXCEPT !.events = Append(f.events, MouseEvent(MOUSEMOTION, x, y)),
              !.pointer = TRUE,
              !.lastMove = now]

\* Mutant: the button-down handler pushes the event whatever the state.
UpdateHandleMouseDownNoGuard(f, button, x, y) ==
    LET state == CheckMouseState(button, FALSE)
    IN [f EXCEPT !.events = Append(f.events, MouseEvent(state, x, y))]

UpdateHandleMouseDown(f, button, x, y) ==
    LET state == CheckMouseState(button, FALSE)
    IN IF state # UNHANDLED
       THEN [f EXCEPT !.events = Append(f.events, MouseEvent(state, x, y))]
       ELSE f

UpdateHandleMouseUp(f, button, x, y) ==
    LET state == CheckMouseState(button, TRUE)
    IN IF state # UNHANDLED
       THEN [f EXCEPT !.events = Append(f.events, MouseEvent(state, x, y))]
       ELSE f

\* Mutant: the key cases assign the handler's result to quitSignal instead
\* of only raising it.
PollSwitchAssign(f, q, s, now) ==
    CASE s.t = "SDL_QUIT" -> [f EXCEPT !.quit = TRUE]
      [] s.t = "SDL_KEYDOWN" -> UpdateHandleKeyDown(f, s.sym)
      [] s.t = "SDL_KEYUP" -> UpdateHandleKeyUp(f, s.sym)
      [] s.t = "SDL_MOUSEMOTION" ->
            [UpdateHandleMouseMotion(f, s.x, s.y, now) EXCEPT !.quit = q]
      [] s.t = "SDL_MOUSEBUTTONUP" ->
            [UpdateHandleMouseUp(f, s.button, s.x, s.y) EXCEPT !.quit = q]
      [] s.t = "SDL_MOUSEBUTTONDOWN" ->
            [UpdateHandleMouseDown(f, s.button, s.x, s.y) EXCEPT !.quit = q]
      [] OTHER -> [f EXCEPT !.quit = q]

\* One iteration of the while( SDL_PollEvent ) loop of Update: the switch on
\* the event type.  q is Update's quitSignal before the iteration.
PollSwitch(f, q, s, now) ==
    CASE s.t = "SDL_QUIT" -> [f EXCEPT !.quit = TRUE]
      [] s.t = "SDL_KEYDOWN" ->
            LET r == UpdateHandleKeyDown(f, s.sym)
            IN [r EXCEPT !.quit = IF r.quit THEN r.quit ELSE q]
      [] s.t = "SDL_KEYUP" ->
            LET r == UpdateHandleKeyUp(f, s.sym)
            IN [r EXCEPT !.quit = IF r.quit THEN r.quit ELSE q]
      [] s.t = "SDL_MOUSEMOTION" ->
            [UpdateHandleMouseMotion(f, s.x, s.y, now) EXCEPT !.quit = q]
      [] s.t = "SDL_MOUSEBUTTONUP" ->
            [UpdateHandleMouseUp(f, s.button, s.x, s.y) EXCEPT !.quit = q]
      [] s.t = "SDL_MOUSEBUTTONDOWN" ->
            [UpdateHandleMouseDown(f, s.button, s.x, s.y) EXCEPT !.quit = q]
      [] OTHER -> [f EXCEPT !.quit = q]

\* The loop after the poll loop: one KEYPRESSED event per held key, in
\* ascending key order.
HeldEvents(held) ==
    LET ks == Ascending({k \in held : k >= 0 /\ k < SDLK_LAST})
    IN [i \in 1..Len(ks) |-> KeyEvent(KEYPRESSED, ks[i])]

(***************************************************************************)
(* Input::eventMappings, a std::map<InputEvent,string>: a function from    *)
(* the set of stored keys.  find, insert and erase locate a key by the     *)
(* equivalence of operator<.                                               *)
(***************************************************************************)
EmptyMap == [k \in {} |-> ""]

\* Mutant: the lookup matches on kind and sub-state only.
MapFindLoose(m, e) == {k \in DOMAIN m : k.type = e.type /\ k.state = e.state}

MapFind(m, e) == {k \in DOMAIN m : EventEquiv(k, e)}

\* Mutant: eventMappings[event] = command, which overwrites.
MapInsertAssign(m, e, c) ==
    [k \in (DOMAIN m \ MapFind(m, e)) \cup {e} |-> IF k = e THEN c ELSE m[k]]

MapInsert(m, e, c) ==
    IF MapFind(m, e) # {} THEN m
    ELSE [k \in DOMAIN m \cup {e} |-> IF k = e THEN c ELSE m[k]]

\* Mutant: the registry is cleared instead of one key being erased.
MapEraseAll(m, e) == IF MapFind(m, e) # {} THEN EmptyMap ELSE m

MapErase(m, e) == [k \in DOMAIN m \ MapFind(m, e) |-> m[k]]


(***************************************************************************)
(* Lua::Run, called by HandleLuaCallBacks.  l = [maps, init, reqs, log,    *)
(* rets] is the registry, Lua::luaInitialized, the Run calls made so far   *)
(* with the event each was made for, the lines given to Log and the values *)
(* the calls returned.  openOk is the outcome of lua_open() should         *)
(* Lua::Init have to run.                                                  *)
(***************************************************************************)
\* luaL_dostring: the command's effect on the registry and its status
\* (nonzero on a Lua error).  CmdUnreg is a script calling
\* Epiar.UnRegisterKey, i.e. Input::UnRegisterKey with 2 arguments, and
\* CmdReg one calling Epiar.RegisterKey, i.e. Input::RegisterKey with 3.
LuaDoString(maps, line) ==
    CASE line = CmdBad -> [maps |-> maps, status |-> 1]
      [] line = CmdUnreg ->
            [maps |-> MapErase(maps, KeyEvent(KEYDOWN, SDLK_a)), status |-> 0]
      [] line = CmdReg ->
            [maps |-> MapInsert(maps, KeyEvent(KEYDOWN, SDLK_a), CmdOk),
             status |-> 0]
      [] OTHER -> [maps |-> maps, status |-> 0]

\* Both return statements of Run return false.
LuaRun(l, line, openOk) ==
    IF ~l.init /\ ~openOk
    THEN [l EXCEPT !.log = Append(l.log, <<"Warning", line>>),
                   !.rets = Append(l.rets, FALSE)]
    ELSE LET r == LuaDoString(l.maps, line)
         IN [l EXCEPT !.init = TRUE,
                      !.maps = r.maps,
                      !.log = IF r.status # 0
                              THEN Append(l.log, <<"Error", line>>)
                              ELSE l.log,
                      !.rets = Append(l.rets, FALSE)]

\* Mutant: the loop runs a matched command twice.
RECURSIVE LuaCallBacksTwice(_, _, _)
LuaCallBacksTwice(evs, l, openOk) ==
    IF evs = <<>> THEN l
    ELSE LET val == MapFind(l.maps, Head(evs))
             line == l.maps[CHOOSE k \in val : TRUE]
             req == [ev |-> Head(evs), cmd |-> line]
             one == LuaRun([l EXCEPT !.reqs = Append(l.reqs, req)], line, openOk)
             two == LuaRun([one EXCEPT !.reqs = Append(one.reqs, req)], line, openOk)
         IN LuaCallBacksTwice(Tail(evs), IF val # {} THEN two ELSE l, openOk)

\* Mutant: a failing command ends the loop.
RECURSIVE LuaCallBacksAbort(_, _, _)
LuaCallBacksAbort(evs, l, openOk) ==
    IF evs = <<>> THEN l
    ELSE LET val == MapFind(l.maps, Head(evs))
             line == l.maps[CHOOSE k \in val : TRUE]
             call == [l EXCEPT !.reqs = Append(l.reqs, [ev |-> Head(evs), cmd |-> line])]
             next == IF val # {} THEN LuaRun(call, line, openOk) ELSE l
         IN IF Len(next.log) > Len(l.log) THEN next
            ELSE LuaCallBacksAbort(Tail(evs), next, openOk)

\* Mutant: every lookup is made in the registry as it was when the stage
\* began.
RECURSIVE LuaCallBacksSnapshot(_, _, _)
LuaCallBacksSnapshot(evs, l, openOk) ==
    IF evs = <<>> THEN l
    ELSE LET val == MapFind(eventMappings, Head(evs))
             line == eventMappings[CHOOSE k \in val : TRUE]
             call == [l EXCEPT !.reqs = Append(l.reqs, [ev |-> Head(evs), cmd |-> line])]
             next == IF val # {} THEN LuaRun(call, line, openOk) ELSE l
         IN LuaCallBacksSnapshot(Tail(evs), next, openOk)

\* Input::HandleLuaCallBacks: the loop over the list, front to back.
RECURSIVE LuaCallBacks(_, _, _)
LuaCallBacks(evs, l, openOk) ==
    IF evs = <<>> THEN l
    ELSE LET val == MapFind(l.maps, Head(evs))
             line == l.maps[CHOOSE k \in val : TRUE]
             call == [l EXCEPT !.reqs = Append(l.reqs, [ev |-> Head(evs), cmd |-> line])]
             next == IF val # {} THEN LuaRun(call, line, openOk) ELSE l
         IN LuaCallBacks(Tail(evs), next, openOk)

(***************************************************************************)
(* State.                                                                  *)
(***************************************************************************)
NoScriptCall == [fn |-> "none", args |-> <<>>, error |-> ""]

NoFade == [ui |-> "unread", calls |-> 0, was |-> TRUE]

NoCall == [op |-> "none", ev |-> KeyEvent(KEYUP, 0), cmd |-> "", found |-> FALSE]

Init ==
    /\ heldKeys = {}
    /\ events = <<>>
    /\ eventMappings = EmptyMap
    /\ lastMouseMove = 0
    /\ quitSignal = FALSE
    /\ pc = "idle"
    /\ ticks = 0
    /\ mouseEnabled = TRUE
    /\ luaInitialized = FALSE
    /\ samples = <<>>
    /\ translated = <<>>
    /\ luaRequests = <<>>
    /\ luaLog = <<>>
    /\ luaReturns = <<>>
    /\ lastTransition = [k \in PlainKeys |-> "none"]
    /\ lastCall = NoCall
    /\ fade = NoFade
    /\ scriptCall = NoScriptCall

(***************************************************************************)
(* Input::Update, phase by phase.                                          *)
(***************************************************************************)
\* Entry: bool quitSignal = false.
UpdateBegin ==
    /\ pc = "idle"
    /\ pc' = "poll"
    /\ quitSignal' = FALSE
    /\ lastCall' = NoCall
    /\ fade' = NoFade
    /\ UNCHANGED <<scriptCall, heldKeys, events, eventMappings, lastMouseMove, ticks,
                   mouseEnabled, luaInitialized, samples, translated,
                   luaRequests, luaLog, luaReturns, lastTransition>>

\* SDL_PollEvent returned the raw event s.
PollEvent(s) ==
    /\ pc = "poll"
    /\ Len(samples) < MaxSamples
    /\ LET f == [events |-> events, held |-> heldKeys, quit |-> quitSignal,
                 lastMove |-> lastMouseMove, pointer |-> mouseEnabled]
           r == PollSwitch(f, quitSignal, s, ticks)
       IN /\ events' = r.events
          /\ heldKeys' = r.held
          /\ quitSignal' = r.quit
          /\ lastMouseMove' = r.lastMove
          /\ mouseEnabled' = r.pointer
    /\ samples' = Append(samples, s)
    /\ lastTransition' =
          IF s.t = "SDL_KEYDOWN" /\ s.sym \in PlainKeys
          THEN [lastTransition EXCEPT ![s.sym] = "down"]
          ELSE IF s.t = "SDL_KEYUP" /\ s.sym \in PlainKeys
               THEN [lastTransition EXCEPT ![s.sym] = "up"]
               ELSE lastTransition
    /\ UNCHANGED <<scriptCall, fade, eventMappings, pc, ticks, luaInitialized, translated,
                   luaRequests, luaLog, luaReturns, lastCall>>

\* SDL_PollEvent returned 0: the held-key loop runs and the list goes to the
\* first stage.
\* Mutant: the Held events are put in front of the list.
PollDoneHeldFirst ==
    /\ pc = "poll"
    /\ events' = HeldEvents(heldKeys) \o events
    /\ translated' = events'
    /\ pc' = "ui"
    /\ UNCHANGED <<heldKeys, eventMappings, lastMouseMove, quitSignal, ticks,
                   mouseEnabled, luaInitialized, samples, luaRequests, luaLog, luaReturns,
                   lastTransition, lastCall, scriptCall, fade>>

\* Mutant: the held-key loop clears the flags it has emitted.
PollDoneClearsHeld ==
    /\ pc = "poll"
    /\ events' = events \o HeldEvents(heldKeys)
    /\ translated' = events'
    /\ pc' = "ui"
    /\ heldKeys' = {}
    /\ UNCHANGED <<eventMappings, lastMouseMove, quitSignal, ticks,
                   mouseEnabled, luaInitialized, samples, luaRequests, luaLog, luaReturns,
                   lastTransition, lastCall, scriptCall, fade>>

PollDone ==
    /\ pc = "poll"
    /\ events' = events \o HeldEvents(heldKeys)
    /\ translated' = events'
    /\ pc' = "ui"
    /\ UNCHANGED <<scriptCall, fade, heldKeys, eventMappings, lastMouseMove, quitSignal, ticks,
                   mouseEnabled, luaInitialized, samples, luaRequests, luaLog, luaReturns,
                   lastTransition, lastCall>>

\* A HandleInput stage: it erases the events it handles (those at the
\* positions in take) and leaves the others in place and in order.
StageHandleInput(at, then, take) ==
    /\ pc = at
    /\ take \subseteq 1..Len(events)
    /\ Cardinality(take) <= MaxTaken
    /\ events' = RemoveAt(events, take)
    /\ pc' = then
    /\ UNCHANGED <<scriptCall, fade, heldKeys, eventMappings, lastMouseMove, quitSignal, ticks,
                   mouseEnabled, luaInitialized, samples, translated,
                   luaRequests, luaLog, luaReturns, lastTransition, lastCall>>

\* Mutant: the console stage is left out of the chain.
UIHandleInputSkipConsole(take) == StageHandleInput("ui", "hud", take)

UIHandleInput(take) == StageHandleInput("ui", "console", take)
ConsoleHandleInput(take) == StageHandleInput("console", "hud", take)
HudHandleInput(take) == StageHandleInput("hud", "lua", take)

HandleLuaCallBacks(openOk) ==
    /\ pc = "lua"
    /\ LET l == [maps |-> eventMappings, init |-> luaInitialized,
                 reqs |-> luaRequests, log |-> luaLog, rets |-> luaReturns]
           r == LuaCallBacks(events, l, openOk)
       IN /\ eventMappings' = r.maps
          /\ luaInitialized' = r.init
          /\ luaRequests' = r.reqs
          /\ luaLog' = r.log
          /\ luaReturns' = r.rets
    /\ pc' = "tail"
    /\ UNCHANGED <<scriptCall, fade, heldKeys, events, lastMouseMove, quitSignal, ticks,
                   mouseEnabled, samples, translated, lastTransition, lastCall>>

\* The tail of Update: the mouse fade, events.clear(), return quitSignal.
\* The frame is over, and with it the record of what it polled and ran.
\* lastMouseMove is an earlier reading of the same monotonic timer, so the
\* Uint32 difference is the plain one.  UI::Active() is the right operand
\* of &&: it is called only when the left one holds.
\* Mutant: the fade fires when the elapsed ticks reach the threshold.
UpdateEndFadeAtThreshold(uiActive) ==
    /\ pc = "tail"
    /\ LET over == ticks - lastMouseMove >= MouseFade
           hide == over /\ ~uiActive
       IN /\ mouseEnabled' = IF hide THEN FALSE ELSE mouseEnabled
          /\ fade' = [ui |-> IF ~over THEN "unread"
                             ELSE IF uiActive THEN "active" ELSE "inactive",
                      calls |-> IF hide THEN 1 ELSE 0,
                      was |-> mouseEnabled]
    /\ events' = <<>>
    /\ pc' = "idle"
    /\ samples' = <<>>
    /\ translated' = <<>>
    /\ luaRequests' = <<>>
    /\ luaLog' = <<>>
    /\ luaReturns' = <<>>
    /\ UNCHANGED <<scriptCall, heldKeys, eventMappings, lastMouseMove, quitSignal, ticks,
                   luaInitialized, lastTransition, lastCall>>

\* Mutant: the tail does not clear the list.
UpdateEndKeepEvents(uiActive) ==
    /\ pc = "tail"
    /\ LET over == ticks - lastMouseMove > MouseFade
           hide == over /\ ~uiActive
       IN /\ mouseEnabled' = IF hide THEN FALSE ELSE mouseEnabled
          /\ fade' = [ui |-> IF ~over THEN "unread"
                             ELSE IF uiActive THEN "active" ELSE "inactive",
                      calls |-> IF hide THEN 1 ELSE 0,
                      was |-> mouseEnabled]
    /\ events' = events
    /\ pc' = "idle"
    /\ samples' = <<>>
    /\ translated' = <<>>
    /\ luaRequests' = <<>>
    /\ luaLog' = <<>>
    /\ luaReturns' = <<>>
    /\ UNCHANGED <<scriptCall, heldKeys, eventMappings, lastMouseMove, quitSignal, ticks,
                   luaInitialized, lastTransition, lastCall>>

UpdateEnd(uiActive) ==
    /\ pc = "tail"
    /\ LET over == ticks - lastMouseMove > MouseFade
           hide == over /\ ~uiActive
       IN /\ mouseEnabled' = IF hide THEN FALSE ELSE mouseEnabled
          /\ fade' = [ui |-> IF ~over THEN "unread"
                             ELSE IF uiActive THEN "active" ELSE "inactive",
                      calls |-> IF hide THEN 1 ELSE 0,
                      was |-> mouseEnabled]
    /\ events' = <<>>
    /\ pc' = "idle"
    /\ samples' = <<>>
    /\ translated' = <<>>
    /\ luaRequests' = <<>>
    /\ luaLog' = <<>>
    /\ luaReturns' = <<>>
    /\ UNCHANGED <<scriptCall, heldKeys, eventMappings, lastMouseMove, quitSignal, ticks,
                   luaInitialized, lastTransition, lastCall>>

(***************************************************************************)
(* The registry operations, called between frames.                         *)
(***************************************************************************)
RegisterCallBack(event, command) ==
    /\ pc = "idle"
    /\ eventMappings' = MapInsert(eventMappings, event, command)
    /\ lastCall' = [op |-> "Register", ev |-> event, cmd |-> command,
                    found |-> MapFind(eventMappings, event) # {}]
    /\ UNCHANGED <<scriptCall, fade, heldKeys, events, lastMouseMove, quitSignal, pc, ticks,
                   mouseEnabled, luaInitialized, samples, translated,
                   luaRequests, luaLog, luaReturns, lastTransition>>

UnRegisterCallBack(event) ==
    /\ pc = "idle"
    /\ eventMappings' = MapErase(eventMappings, event)
    /\ lastCall' = [op |-> "UnRegister", ev |-> event, cmd |-> "",
                    found |-> MapFind(eventMappings, event) # {}]
    /\ UNCHANGED <<scriptCall, fade, heldKeys, events, lastMouseMove, quitSignal, pc, ticks,
                   mouseEnabled, luaInitialized, samples, translated,
                   luaRequests, luaLog, luaReturns, lastTransition>>

Next ==
    \/ UpdateBegin
    \/ \E s \in SampleSet : PollEvent(s)
    \/ PollDone
    \/ \E take \in SUBSET (1..Len(events)) : UIHandleInput(take)
    \/ \E take \in SUBSET (1..Len(events)) : ConsoleHandleInput(take)
    \/ \E take \in SUBSET (1..Len(events)) : HudHandleInput(take)
    \/ \E openOk \in BOOLEAN : HandleLuaCallBacks(openOk)
    \/ \E uiActive \in BOOLEAN : UpdateEnd(uiActive)
    \/ \E call \in RegCalls : RegisterCallBack(call[1], call[2])
    \/ \E e \in RegEvents : UnRegisterCallBack(e)

Spec == Init /\ [][Next]_vars

(***************************************************************************)
(* SpecTyped: the translation of one frame of keyboard samples over the    *)
(* keys PushTypeEvent tells apart, started with any of the shift keys held *)
(* from an earlier frame.  No stage removes an event and the registry is   *)
(* empty.  A further frame starts only from such a held table again, which *)
(* keeps the held tables of the specification few.                         *)
(***************************************************************************)
Letters == {SDLK_a, SDLK_z}
Digits == SDLK_0..SDLK_9
Punctuation ==
    {SDLK_QUOTE, SDLK_SEMICOLON, SDLK_BACKQUOTE, SDLK_MINUS, SDLK_SLASH,
     SDLK_COMMA, SDLK_PERIOD, SDLK_BACKSLASH, SDLK_LEFTBRACKET,
     SDLK_RIGHTBRACKET, SDLK_EQUALS}
EnterKeys == {SDLK_RETURN, SDLK_KP_ENTER}
ShiftKeys == {SDLK_LSHIFT, SDLK_RSHIFT}
OtherKeys == {SDLK_SPACE, SDLK_F1}

TypedKeys ==
    Letters \cup Digits \cup Punctuation \cup EnterKeys \cup ShiftKeys
    \cup OtherKeys

TypedSampleSet ==
    {SdlKeyDown(k) : k \in TypedKeys \cup {SDLK_ESCAPE}}
    \cup {SdlKeyUp(k) : k \in ShiftKeys \cup {SDLK_a}}
    \cup {SdlMouseButtonDown(SDL_BUTTON_LEFT, 1, 1)}

InitTyped ==
    /\ heldKeys \in SUBSET ShiftKeys
    /\ events = <<>>
    /\ eventMappings = EmptyMap
    /\ lastMouseMove = 0
    /\ quitSignal = FALSE
    /\ pc = "idle"
    /\ ticks = 0
    /\ mouseEnabled = TRUE
    /\ luaInitialized = FALSE
    /\ samples = <<>>
    /\ translated = <<>>
    /\ luaRequests = <<>>
    /\ luaLog = <<>>
    /\ luaReturns = <<>>
    /\ lastTransition = [k \in PlainKeys |-> "none"]
    /\ lastCall = NoCall
    /\ fade = NoFade
    /\ scriptCall = NoScriptCall

NextTyped ==
    \/ heldKeys \subseteq ShiftKeys /\ UpdateBegin
    \/ \E s \in TypedSampleSet : PollEvent(s)
    \/ PollDone
    \/ UIHandleInput({})
    \/ ConsoleHandleInput({})
    \/ HudHandleInput({})
    \/ HandleLuaCallBacks(TRUE)
    \/ UpdateEnd(FALSE)

SpecTyped == InitTyped /\ [][NextTyped]_vars

(***************************************************************************)
(* SpecMouse: frames of mouse samples while the timer runs.  Timer ticks   *)
(* pass between any two steps of a frame and between frames.  No stage     *)
(* removes an event; scripts bind and unbind the key-down of 'a'.          *)
(***************************************************************************)
SDL_BUTTON_UNKNOWN == 6

MouseButtons == SDL_BUTTON_LEFT..SDL_BUTTON_UNKNOWN

MouseSampleSet ==
    {SdlMouseMotion(1, 2)}
    \cup {SdlMouseButtonDown(b, 1, 2) : b \in MouseButtons}
    \cup {SdlMouseButtonUp(b, 2, 1) : b \in MouseButtons}
    \cup {SdlKeyDown(SDLK_a)}

\* Timer::GetTicks() returns one more than before.
Tick ==
    /\ ticks < MaxTicks
    /\ ticks' = ticks + 1
    /\ UNCHANGED <<scriptCall, heldKeys, events, eventMappings, lastMouseMove, quitSignal,
                   pc, mouseEnabled, luaInitialized, samples, translated,
                   luaRequests, luaLog, luaReturns, lastTransition, lastCall, fade>>

NextMouse ==
    \/ Tick
    \/ UpdateBegin
    \/ \E s \in MouseSampleSet : PollEvent(s)
    \/ PollDone
    \/ UIHandleInput({})
    \/ ConsoleHandleInput({})
    \/ HudHandleInput({})
    \/ HandleLuaCallBacks(TRUE)
    \/ \E uiActive \in BOOLEAN : UpdateEnd(uiActive)
    \/ RegisterCallBack(KeyEvent(KEYDOWN, SDLK_a), CmdOk)
    \/ UnRegisterCallBack(KeyEvent(KEYDOWN, SDLK_a))

SpecMouse == Init /\ [][NextMouse]_vars

(***************************************************************************)
(* The script-facing functions Input::RegisterKey and UnRegisterKey.  The  *)
(* arguments are the values on the Lua stack.  luaL_error and a failing    *)
(* luaL_check* raise a Lua error, which ends the call where it is raised.  *)
(***************************************************************************)
LuaNum(n) == [t |-> "number", n |-> n, s |-> ""]
LuaStr(x) == [t |-> "string", n |-> 0, s |-> x]

\* lua_isnumber: a number (the strings of the model do not read as one).
LuaIsNumber(v) == v.t = "number"

\* luaL_checkstring(L, i)[0]: the code of the first character.
FirstChar(x) == CASE x = "a" -> 97 [] x = "ok" -> 111 [] OTHER -> 0

\* luaL_checkstring: a number is converted to its string.
LuaCheckString(v) == IF v.t = "number" THEN ToString(v.n) ELSE v.s

TriggerKey(v) == IF LuaIsNumber(v) THEN v.n ELSE FirstChar(v.s)

\* Mutant: the argument count test accepts extra arguments.
RegisterKeyAtLeast3(args) ==
    /\ pc = "idle"
    /\ IF Len(args) >= 3
       THEN IF LuaIsNumber(args[2])
            THEN LET event == KeyEvent(args[2].n, TriggerKey(args[1]))
                     command == LuaCheckString(args[3])
                 IN /\ eventMappings' = MapInsert(eventMappings, event, command)
                    /\ lastCall' = [op |-> "Register", ev |-> event,
                                    cmd |-> command,
                                    found |-> MapFind(eventMappings, event) # {}]
                    /\ scriptCall' = [fn |-> "RegisterKey", args |-> args,
                                      error |-> ""]
            ELSE /\ scriptCall' = [fn |-> "RegisterKey", args |-> args,
                                   error |-> "bad argument #2 (number expected)"]
                 /\ UNCHANGED <<eventMappings, lastCall>>
       ELSE /\ scriptCall' = [fn |-> "RegisterKey", args |-> args,
                              error |-> "Got n arguments expected 3 (Key, State, Command)"]
            /\ UNCHANGED <<eventMappings, lastCall>>
    /\ UNCHANGED <<heldKeys, events, lastMouseMove, quitSignal, pc, ticks,
                   mouseEnabled, luaInitialized, samples, translated,
                   luaRequests, luaLog, luaReturns, lastTransition, fade>>

RegisterKey(args) ==
    /\ pc = "idle"
    /\ IF Len(args) = 3
       THEN IF LuaIsNumber(args[2])
            THEN LET event == KeyEvent(args[2].n, TriggerKey(args[1]))
                     command == LuaCheckString(args[3])
                 IN /\ eventMappings' = MapInsert(eventMappings, event, command)
                    /\ lastCall' = [op |-> "Register", ev |-> event,
                                    cmd |-> command,
                                    found |-> MapFind(eventMappings, event) # {}]
                    /\ scriptCall' = [fn |-> "RegisterKey", args |-> args,
                                      error |-> ""]
            ELSE /\ scriptCall' = [fn |-> "RegisterKey", args |-> args,
                                   error |-> "bad argument #2 (number expected)"]
                 /\ UNCHANGED <<eventMappings, lastCall>>
       ELSE /\ scriptCall' = [fn |-> "RegisterKey", args |-> args,
                              error |-> "Got n arguments expected 3 (Key, State, Command)"]
            /\ UNCHANGED <<eventMappings, lastCall>>
    /\ UNCHANGED <<heldKeys, events, lastMouseMove, quitSignal, pc, ticks,
                   mouseEnabled, luaInitialized, samples, translated,
                   luaRequests, luaLog, luaReturns, lastTransition, fade>>

UnRegisterKey(args) ==
    /\ pc = "idle"
    /\ IF Len(args) = 2
       THEN IF LuaIsNumber(args[2])
            THEN LET event == KeyEvent(args[2].n, TriggerKey(args[1]))
                 IN /\ eventMappings' = MapErase(eventMappings, event)
                    /\ lastCall' = [op |-> "UnRegister", ev |-> event,
                                    cmd |-> "",
                                    found |-> MapFind(eventMappings, event) # {}]
                    /\ scriptCall' = [fn |-> "UnRegisterKey", args |-> args,
                                      error |-> ""]
            ELSE /\ scriptCall' = [fn |-> "UnRegisterKey", args |-> args,
                                   error |-> "bad argument #2 (number expected)"]
                 /\ UNCHANGED <<eventMappings, lastCall>>
       ELSE /\ scriptCall' = [fn |-> "UnRegisterKey", args |-> args,
                              error |-> "Got n arguments expected 2 (Key, State)"]
            /\ UNCHANGED <<eventMappings, lastCall>>
    /\ UNCHANGED <<heldKeys, events, lastMouseMove, quitSignal, pc, ticks,
                   mouseEnabled, luaInitialized, samples, translated,
                   luaRequests, luaLog, luaReturns, lastTransition, fade>>

(***************************************************************************)
(* SpecScript: scripts calling RegisterKey and UnRegisterKey between       *)
(* frames with argument lists of every length up to MaxArgs.               *)
(***************************************************************************)
ArgValues == {LuaNum(KEYDOWN), LuaStr("a")}

ArgLists == UNION {[1..n -> ArgValues] : n \in 0..MaxArgs}

NextScript ==
    \/ \E args \in ArgLists : RegisterKey(args)
    \/ \E args \in ArgLists : UnRegisterKey(args)

SpecScript == Init /\ [][NextScript]_vars

(***************************************************************************)
(* SpecOrder: the registry as scripts fill and empty it between frames,    *)
(* over events that differ in each single field of the identity.           *)
(***************************************************************************)
OrderEvents ==
    {KeyEvent(KEYUP, SDLK_a + 1), KeyEvent(KEYDOWN, SDLK_a),
     KeyEvent(KEYDOWN, SDLK_a + 1), KeyEvent(KEYTYPED, SDLK_a),
     MouseEvent(MOUSEMOTION, 1, 2), MouseEvent(MOUSEMOTION, 2, 1),
     MouseEvent(MOUSELDOWN, 1, 1), MouseEvent(MOUSELDOWN, 1, 2)}

NextOrder ==
    \/ \E e \in OrderEvents : RegisterCallBack(e, CmdOk)
    \/ \E e \in OrderEvents : UnRegisterCallBack(e)

SpecOrder == Init /\ [][NextOrder]_vars


(***************************************************************************)
(* SpecLua: commands that change the registry while the script stage       *)
(* runs.  The key 'a' and a click are polled; scripts bind the click, the  *)
(* key-down of 'a' and the Held event of 'a'; no stage removes an event.   *)
(***************************************************************************)
LuaSampleSet ==
    {SdlKeyDown(SDLK_a), SdlKeyUp(SDLK_a),
     SdlMouseButtonDown(SDL_BUTTON_LEFT, 1, 1)}

RegCallsLua ==
    ({MouseEvent(MOUSELDOWN, 1, 1)} \X {CmdReg, CmdUnreg})
    \cup ({KeyEvent(KEYDOWN, SDLK_a)} \X {CmdOk, CmdUnreg})
    \cup {<<KeyEvent(KEYPRESSED, SDLK_a), CmdOk>>}

NextLua ==
    \/ UpdateBegin
    \/ \E s \in LuaSampleSet : PollEvent(s)
    \/ PollDone
    \/ UIHandleInput({})
    \/ ConsoleHandleInput({})
    \/ HudHandleInput({})
    \/ HandleLuaCallBacks(TRUE)
    \/ UpdateEnd(FALSE)
    \/ \E call \in RegCallsLua : RegisterCallBack(call[1], call[2])
    \/ \E call \in RegCallsLua : UnRegisterCallBack(call[1])

SpecLua == Init /\ [][NextLua]_vars


(***************************************************************************)
(* Vocabulary of the properties.                                           *)
(***************************************************************************)
\* How often the value e occurs in the sequence s.
Count(s, e) == Cardinality({i \in 1..Len(s) : s[i] = e})

\* The list of the frame has been built and handed to the stages.
Built == pc \in {"ui", "console", "hud", "lua", "tail"}

IsKeyTransition(s, k) == s.t \in {"SDL_KEYDOWN", "SDL_KEYUP"} /\ s.sym = k

\* The raw transitions of key k among the samples ss, in order.
KeyTransitions(ss, k) == SelectSeq(ss, LAMBDA s : IsKeyTransition(s, k))

\* A sample that raises the quit signal.
QuitRaising(s) == s.t = "SDL_QUIT" \/ IsKeyTransition(s, SDLK_ESCAPE)

HasQuitRaising(ss) == \E i \in 1..Len(ss) : QuitRaising(ss[i])

(***************************************************************************)
(* C1.  For a key k other than escape: a frame with exactly one raw        *)
(* key-down for k, not followed by a key-up for k, has exactly one         *)
(* KeyEvent{k, Down} and exactly one KeyEvent{k, Held} in its list, and    *)
(* every later frame without a transition for k (the last one was a        *)
(* key-down) has exactly one KeyEvent{k, Held}.                            *)
(***************************************************************************)
SoleDownLast(ss, k) ==
    LET tr == KeyTransitions(ss, k)
    IN /\ Count(ss, SdlKeyDown(k)) = 1
       /\ tr[Len(tr)] = SdlKeyDown(k)

C1_SingleDownThenHeld ==
    \A k \in PlainKeys :
        Built =>
            /\ SoleDownLast(samples, k) =>
                  /\ Count(translated, KeyEvent(KEYDOWN, k)) = 1
                  /\ Count(translated, KeyEvent(KEYPRESSED, k)) = 1
            /\ KeyTransitions(samples, k) = <<>> /\ lastTransition[k] = "down" =>
                  Count(translated, KeyEvent(KEYPRESSED, k)) = 1

\* A later frame: no transition for 'a', its last transition was a key-down,
\* and the frame's list holds its one Held event.
C1_Witness ==
    /\ pc = "tail"
    /\ samples = <<SdlMouseButtonDown(SDL_BUTTON_LEFT, 1, 1)>>
    /\ lastTransition[SDLK_a] = "down"
    /\ translated = <<MouseEvent(MOUSELDOWN, 1, 1), KeyEvent(KEYPRESSED, SDLK_a)>>

(***************************************************************************)
(* C2.  Once the most recent raw transition of a key k is a key-up, the    *)
(* held flag of k is false and no KeyEvent{k, Held} is in the list of the  *)
(* frame of the key-up nor of any later frame, until a raw key-down for k. *)
(***************************************************************************)
C2_UpClearsHeld ==
    \A k \in PlainKeys :
        lastTransition[k] = "up" =>
            /\ k \notin heldKeys
            /\ Count(events, KeyEvent(KEYPRESSED, k)) = 0
            /\ Count(translated, KeyEvent(KEYPRESSED, k)) = 0

\* The key-up arrived while 'a' was held (it went down earlier in the frame).
C2_Witness ==
    /\ pc = "tail"
    /\ samples = <<SdlKeyDown(SDLK_a), SdlKeyUp(SDLK_a)>>
    /\ SDLK_a \notin heldKeys
    /\ Count(translated, KeyEvent(KEYPRESSED, SDLK_a)) = 0
    /\ Count(translated, KeyEvent(KEYUP, SDLK_a)) = 1

(***************************************************************************)
(* C3.  As claimed: a raw escape transition raises the quit signal and its *)
(* key event is in the frame's list as well.                               *)
(***************************************************************************)
C3_EscapeEventEmitted ==
    Built =>
        \A i \in 1..Len(samples) :
            /\ samples[i] = SdlKeyDown(SDLK_ESCAPE) =>
                  quitSignal /\ Count(translated, KeyEvent(KEYDOWN, SDLK_ESCAPE)) >= 1
            /\ samples[i] = SdlKeyUp(SDLK_ESCAPE) =>
                  quitSignal /\ Count(translated, KeyEvent(KEYUP, SDLK_ESCAPE)) >= 1

(***************************************************************************)
(* C3, amended.  A raw escape transition (key-down or key-up) raises the   *)
(* quit signal and nothing else: it appends no event to the list and       *)
(* leaves the held table as it was.                                        *)
(***************************************************************************)
C3_EscapeOnlyQuits ==
    [][\A s \in SampleSet :
          pc = "poll" /\ samples' = Append(samples, s)
                      /\ IsKeyTransition(s, SDLK_ESCAPE) =>
              /\ quitSignal'
              /\ events' = events
              /\ heldKeys' = heldKeys]_vars

C3_Witness ==
    /\ pc = "tail"
    /\ samples = <<SdlKeyDown(SDLK_ESCAPE)>>
    /\ quitSignal
    /\ translated = <<>>

(***************************************************************************)
(* C4.  The quit flag is per-frame and monotone within the frame: Update   *)
(* starts with it false whatever the previous frame returned; once true it *)
(* stays true through the later samples and the dispatch stages up to the  *)
(* return; and the value returned is true exactly when the frame's samples *)
(* contain a quit-raising transition.                                      *)
(***************************************************************************)
C4_QuitPerFrameMonotone ==
    [][/\ pc = "idle" /\ pc' = "poll" => ~quitSignal'
       /\ pc # "idle" /\ quitSignal => quitSignal'
       /\ pc = "tail" => (quitSignal <=> HasQuitRaising(samples))
       /\ pc = "tail" /\ pc' = "idle" => quitSignal' = quitSignal]_vars

\* Escape came first and a later sample of the same frame did not clear the
\* flag; the dispatch stages have run.
C4_Witness ==
    /\ pc = "tail"
    /\ samples = <<SdlKeyDown(SDLK_ESCAPE), SdlKeyDown(SDLK_a)>>
    /\ quitSignal


(***************************************************************************)
(* Vocabulary of the dispatch properties.                                  *)
(***************************************************************************)
RECURSIVE IsSubSeq(_, _)
IsSubSeq(a, b) ==
    IF a = <<>> THEN TRUE
    ELSE IF b = <<>> THEN FALSE
    ELSE IF Head(a) = Head(b) THEN IsSubSeq(Tail(a), Tail(b))
    ELSE IsSubSeq(a, Tail(b))

\* The requests made for the event identity e.
RequestsFor(reqs, e) == SelectSeq(reqs, LAMBDA r : r.ev = e)

RequestEvents(reqs) == [i \in 1..Len(reqs) |-> reqs[i].ev]

\* The events of evs whose identity is a key of m, each with its command.
ExpectedRequests(evs, m) ==
    LET hit == SelectSeq(evs, LAMBDA e : e \in DOMAIN m)
    IN [i \in 1..Len(hit) |-> [ev |-> hit[i], cmd |-> m[hit[i]]]]

\* No command bound to an event ahead of position i unregisters a binding.
NoUnregisterAhead(evs, m, i) ==
    \A j \in 1..(i - 1) : evs[j] \in DOMAIN m => m[evs[j]] # CmdUnreg

(***************************************************************************)
(* C5.  As claimed, for every key code k: with KeyEvent{k, Down} bound to  *)
(* c, a frame with one raw key-down for k makes exactly one request, with  *)
(* c, for that event when no stage removed it, and none when one did.      *)
(***************************************************************************)
C5_AnyKeyDownOneRequest ==
    [][pc = "lua" =>
          \A k \in KeySyms, c \in Commands :
              LET e == KeyEvent(KEYDOWN, k)
              IN /\ e \in DOMAIN eventMappings
                 /\ eventMappings[e] = c
                 /\ Count(samples, SdlKeyDown(k)) = 1
                 => IF Count(events, e) = Count(translated, e)
                    THEN RequestsFor(luaRequests', e) = <<[ev |-> e, cmd |-> c]>>
                    ELSE RequestsFor(luaRequests', e) = <<>>]_vars

(***************************************************************************)
(* C5, amended.  For every key code k other than escape: with              *)
(* KeyEvent{k, Down} bound to c, a frame with one raw key-down for k makes *)
(* exactly one request, with c, for that event when no stage removed it    *)
(* and no command run earlier in the frame unregisters a binding, and no   *)
(* request for it when a stage removed it.                                 *)
(***************************************************************************)
C5_PlainKeyDownOneRequest ==
    [][pc = "lua" =>
          \A k \in PlainKeys, c \in Commands :
              LET e == KeyEvent(KEYDOWN, k)
              IN /\ e \in DOMAIN eventMappings
                 /\ eventMappings[e] = c
                 /\ Count(samples, SdlKeyDown(k)) = 1
                 => /\ Count(translated, e) = 1
                    /\ \A i \in 1..Len(events) :
                          events[i] = e /\ NoUnregisterAhead(events, eventMappings, i) =>
                              RequestsFor(luaRequests', e) = <<[ev |-> e, cmd |-> c]>>
                    /\ Count(events, e) = 0 => RequestsFor(luaRequests', e) = <<>>]_vars

C5_Witness ==
    /\ pc = "tail"
    /\ samples = <<SdlKeyDown(SDLK_a)>>
    /\ events = translated
    /\ luaRequests = <<[ev |-> KeyEvent(KEYDOWN, SDLK_a), cmd |-> CmdOk]>>

(***************************************************************************)
(* C6.  In every frame the stages run once each in the order interface     *)
(* layer, console, overlay, script dispatcher.  The first gets the list as *)
(* translated; each stage leaves a sub-list (same order) of what it got,   *)
(* which is what the next one gets; the dispatcher removes nothing and     *)
(* makes requests only for events still on the list.                       *)
(***************************************************************************)
C6_StagesInOrder ==
    [][/\ pc = "poll" /\ pc' # "poll" => pc' = "ui" /\ translated' = events'
       /\ pc = "ui" => pc' = "console" /\ IsSubSeq(events', events)
       /\ pc = "console" => pc' = "hud" /\ IsSubSeq(events', events)
       /\ pc = "hud" => pc' = "lua" /\ IsSubSeq(events', events)
       /\ pc = "lua" => /\ pc' = "tail"
                        /\ events' = events
                        /\ IsSubSeq(RequestEvents(luaRequests'), events)
       /\ pc = "tail" => pc' = "idle"
       /\ pc # "poll" => translated' = translated \/ pc = "tail"]_vars

\* The interface layer or the console took the bound key-down: the list the
\* dispatcher got is shorter and the binding was not run.
C6_Witness ==
    /\ pc = "tail"
    /\ samples = <<SdlKeyDown(SDLK_a)>>
    /\ KeyEvent(KEYDOWN, SDLK_a) \in DOMAIN eventMappings
    /\ Count(translated, KeyEvent(KEYDOWN, SDLK_a)) = 1
    /\ events = <<KeyEvent(KEYTYPED, SDLK_a), KeyEvent(KEYPRESSED, SDLK_a)>>
    /\ luaRequests = <<>>

(***************************************************************************)
(* C7.  As claimed: Register follows last-write-wins, the identity is      *)
(* bound to the command of the latest Register call.                       *)
(***************************************************************************)
IsRegisterCall == lastCall' # lastCall /\ lastCall'.op = "Register"
IsUnRegisterCall == lastCall' # lastCall /\ lastCall'.op = "UnRegister"

C7_LastWriteWins ==
    [][IsRegisterCall =>
          /\ lastCall'.ev \in DOMAIN eventMappings'
          /\ eventMappings'[lastCall'.ev] = lastCall'.cmd]_vars

(***************************************************************************)
(* C7, amended.  Register follows first-write-wins: Register(e, c2) for an *)
(* identity already bound changes nothing, so after Register(e, c1) then   *)
(* Register(e, c2) the identity is bound to c1; for an identity not bound  *)
(* it adds the binding e -> c2 and changes no other.  The dispatcher runs  *)
(* the command the registry holds for the event.                           *)
(***************************************************************************)
C7_FirstWriteWins ==
    [][/\ IsRegisterCall =>
             LET e == lastCall'.ev
             IN IF e \in DOMAIN eventMappings
                THEN eventMappings' = eventMappings
                ELSE /\ DOMAIN eventMappings' = DOMAIN eventMappings \cup {e}
                     /\ eventMappings'[e] = lastCall'.cmd
                     /\ \A k \in DOMAIN eventMappings :
                           eventMappings'[k] = eventMappings[k]
       /\ pc = "lua" /\ events # <<>> /\ Head(events) \in DOMAIN eventMappings =>
             luaRequests'[1] = [ev |-> Head(events),
                                cmd |-> eventMappings[Head(events)]]]_vars

\* Register(e, "bad") was called with e bound; e is bound to "ok".
C7_Witness ==
    /\ lastCall = [op |-> "Register", ev |-> KeyEvent(KEYDOWN, SDLK_a),
                   cmd |-> CmdBad, found |-> TRUE]
    /\ eventMappings[KeyEvent(KEYDOWN, SDLK_a)] = CmdOk

(***************************************************************************)
(* C8.  Unregister(e) removes the binding of e and leaves every other      *)
(* binding as it was; for an identity without a binding it changes         *)
(* nothing; and the dispatcher makes no request for an event whose         *)
(* identity has no binding (so none for e until it is registered again).   *)
(***************************************************************************)
C8_UnregisterRemovesOnlyThat ==
    [][/\ IsUnRegisterCall =>
             LET e == lastCall'.ev
             IN /\ DOMAIN eventMappings' = DOMAIN eventMappings \ {e}
                /\ \A k \in DOMAIN eventMappings' :
                      eventMappings'[k] = eventMappings[k]
                /\ e \notin DOMAIN eventMappings => eventMappings' = eventMappings
       /\ pc = "lua" =>
             \A i \in 1..Len(luaRequests') :
                 luaRequests'[i].ev \in DOMAIN eventMappings]_vars

\* Unregister removed the binding of the key-down and kept the mouse binding.
C8_Witness ==
    /\ lastCall = [op |-> "UnRegister", ev |-> KeyEvent(KEYDOWN, SDLK_a),
                   cmd |-> "", found |-> TRUE]
    /\ DOMAIN eventMappings = {MouseEvent(MOUSELDOWN, 1, 1)}

(***************************************************************************)
(* C9.  The dispatcher matches by exact identity and makes one request per *)
(* match.  The requests follow the order of the list; each is for an event *)
(* whose full identity is a key of the registry and carries the command    *)
(* bound to it; an identity bound before and after the stage gets one      *)
(* request per occurrence on the list; when no command alters the registry *)
(* the requests are exactly the bound events of the list with their        *)
(* commands; a miss makes no request and logs nothing.                     *)
(***************************************************************************)
C9_ExactIdentityDispatch ==
    [][pc = "lua" =>
          /\ IsSubSeq(RequestEvents(luaRequests'), events)
          /\ \A i \in 1..Len(luaRequests') :
                /\ luaRequests'[i].ev \in DOMAIN eventMappings
                /\ luaRequests'[i].cmd = eventMappings[luaRequests'[i].ev]
          /\ \A e \in DOMAIN eventMappings \cap DOMAIN eventMappings' :
                Len(RequestsFor(luaRequests', e)) = Count(events, e)
          /\ eventMappings' = eventMappings =>
                luaRequests' = ExpectedRequests(events, eventMappings)
          /\ Len(luaLog') <= Len(luaRequests')]_vars

\* A click at (2,1) with a binding for the click at (1,1): no request; the
\* bound key-down of the same frame is dispatched.
C9_Witness ==
    /\ pc = "tail"
    /\ samples = <<SdlMouseButtonDown(SDL_BUTTON_LEFT, 2, 1), SdlKeyDown(SDLK_a)>>
    /\ events = translated
    /\ MouseEvent(MOUSELDOWN, 1, 1) \in DOMAIN eventMappings
    /\ luaRequests = <<[ev |-> KeyEvent(KEYDOWN, SDLK_a), cmd |-> CmdOk]>>
    /\ luaLog = <<>>

(***************************************************************************)
(* C10.  A failing command does not abort the frame.  The dispatcher still *)
(* visits the whole list: unless a command unregisters, the requests are   *)
(* all the bound events of the list, those after a failing one included;   *)
(* every failure is logged (an Error line per failing command once the     *)
(* runtime is up, a Warning line per request while it cannot be brought    *)
(* up); the list and the quit flag are untouched by the stage, and the     *)
(* tail clears the list and returns the quit flag.                         *)
(***************************************************************************)
FailingRequests(reqs) == SelectSeq(reqs, LAMBDA r : r.cmd = CmdBad)

C10_FailureDoesNotAbort ==
    [][/\ pc = "lua" =>
             /\ pc' = "tail"
             /\ events' = events
             /\ quitSignal' = quitSignal
             /\ (\A i \in 1..Len(luaRequests') : luaRequests'[i].cmd # CmdUnreg) =>
                   luaRequests' = ExpectedRequests(events, eventMappings)
             /\ luaLog' =
                   IF luaInitialized'
                   THEN [i \in 1..Len(FailingRequests(luaRequests')) |->
                            <<"Error", CmdBad>>]
                   ELSE [i \in 1..Len(luaRequests') |->
                            <<"Warning", luaRequests'[i].cmd>>]
       /\ pc = "tail" =>
             /\ pc' = "idle"
             /\ events' = <<>>
             /\ quitSignal' = quitSignal]_vars

\* The command of the key-down failed and was logged; the click after it was
\* dispatched all the same.
C10_Witness ==
    /\ pc = "tail"
    /\ luaRequests = <<[ev |-> KeyEvent(KEYDOWN, SDLK_a), cmd |-> CmdBad],
                       [ev |-> MouseEvent(MOUSELDOWN, 1, 1), cmd |-> CmdOk]>>
    /\ luaLog = <<<<"Error", CmdBad>>>>

(***************************************************************************)
(* Vocabulary of the character synthesis properties: the characters, by    *)
(* their codes.                                                            *)
(***************************************************************************)
ShiftHeld == SDLK_LSHIFT \in heldKeys \/ SDLK_RSHIFT \in heldKeys

\* The step is the poll loop's handling of a raw key-down for k.
KeyDownStep(k) == pc = "poll" /\ samples' = Append(samples, SdlKeyDown(k))

\* 'a' -> 'A', 'z' -> 'Z'.
UpperCaseOf == (97 :> 65) @@ (122 :> 90)

\* '0'..'9' -> ')', '!', '@', '#', '$', '%', '^', '&', '*', '('.
ShiftedDigitOf ==
    (48 :> 41) @@ (49 :> 33) @@ (50 :> 64) @@ (51 :> 35) @@ (52 :> 36)
    @@ (53 :> 37) @@ (54 :> 94) @@ (55 :> 38) @@ (56 :> 42) @@ (57 :> 40)

\* quote -> '"', semicolon -> ':', backquote -> '~', minus -> '_',
\* slash -> '?', comma -> '<', period -> '>', backslash -> '|',
\* left bracket -> '{', right bracket -> '}', equals -> '+'.
ShiftedCounterpartOf ==
    (39 :> 34) @@ (59 :> 58) @@ (96 :> 126) @@ (45 :> 95) @@ (47 :> 63)
    @@ (44 :> 60) @@ (46 :> 62) @@ (92 :> 124) @@ (91 :> 123) @@ (93 :> 125)
    @@ (61 :> 43)

\* The key-down of k appended Down then Typed carrying ch.
AppendedDownTyped(k, ch) ==
    events' = events \o <<KeyEvent(KEYDOWN, k), KeyEvent(KEYTYPED, ch)>>

(***************************************************************************)
(* C11.  A key-down for a lowercase letter key is typed as the uppercase   *)
(* letter when the left or the right shift key is marked held and as the   *)
(* lowercase letter otherwise; a key-down for the digit d is typed as the  *)
(* d-th character of ")!@#$%^&*(" when a shift key is held and as the      *)
(* digit otherwise.                                                        *)
(***************************************************************************)
C11_LettersAndDigits ==
    [][/\ \A k \in Letters :
             KeyDownStep(k) =>
                 AppendedDownTyped(k, IF ShiftHeld THEN UpperCaseOf[k] ELSE k)
       /\ \A k \in Digits :
             KeyDownStep(k) =>
                 AppendedDownTyped(k, IF ShiftHeld THEN ShiftedDigitOf[k] ELSE k)]_vars

\* Right shift went down, then '1': the frame's list carries Typed '!'.
C11_Witness ==
    /\ pc = "tail"
    /\ samples = <<SdlKeyDown(SDLK_RSHIFT), SdlKeyDown(49)>>
    /\ events[4] = KeyEvent(KEYTYPED, 33)

(***************************************************************************)
(* C12.  As claimed: with a shift key held every key of the punctuation    *)
(* set is typed as its shifted counterpart (" : ~ _ ? < > | { } +), which  *)
(* differs from the raw code of the key; a key outside the letter, digit,  *)
(* punctuation and Return/Enter sets is typed as its raw code, shift or no *)
(* shift.                                                                  *)
(***************************************************************************)
C12_ShiftedPunctuation ==
    [][/\ \A k \in Punctuation :
             KeyDownStep(k) /\ ShiftHeld =>
                 /\ AppendedDownTyped(k, ShiftedCounterpartOf[k])
                 /\ ShiftedCounterpartOf[k] # k
       /\ \A k \in ShiftKeys \cup OtherKeys :
             KeyDownStep(k) => AppendedDownTyped(k, k)]_vars

(***************************************************************************)
(* C13.  A key-down for Return or for the keypad Enter key is typed as the *)
(* newline character, with and without a shift key held.                   *)
(***************************************************************************)
C13_EnterIsNewline ==
    [][\A k \in EnterKeys : KeyDownStep(k) => AppendedDownTyped(k, 10)]_vars

\* Keypad Enter went down with the left shift held since an earlier frame.
C13_Witness ==
    /\ pc = "tail"
    /\ samples = <<SdlKeyDown(SDLK_KP_ENTER)>>
    /\ SDLK_LSHIFT \in heldKeys
    /\ events[2] = KeyEvent(KEYTYPED, 10)

(***************************************************************************)
(* C14.  Identity is the full field tuple and the ordering is a strict     *)
(* total order consistent with it.  For the events the registry holds and  *)
(* the event of the latest registry call: exactly one of a < b, b < a,     *)
(* a = b holds; two events are equivalent keys iff kind, sub-state and key *)
(* code (or x and y) are all equal; a < b is the lexicographic comparison  *)
(* of kind, sub-state, then key code or x then y; and two mouse events of  *)
(* one state at different coordinates are not equivalent, so each gets its *)
(* own binding.                                                            *)
(***************************************************************************)
FieldsOf(e) ==
    IF e.type = KEY THEN <<e.type, e.state, e.key>>
    ELSE <<e.type, e.state, e.mx, e.my>>

RECURSIVE LexLess(_, _)
LexLess(t1, t2) ==
    IF t1 = <<>> \/ t2 = <<>> THEN FALSE
    ELSE IF Head(t1) # Head(t2) THEN Head(t1) < Head(t2)
    ELSE LexLess(Tail(t1), Tail(t2))

ComparedEvents == DOMAIN eventMappings \cup {lastCall.ev}

C14_TotalOrderOnIdentity ==
    \A a, b \in ComparedEvents :
        /\ Cardinality({r \in {"lt", "gt", "eq"} :
                           \/ r = "lt" /\ EventLess(a, b)
                           \/ r = "gt" /\ EventLess(b, a)
                           \/ r = "eq" /\ a = b}) = 1
        /\ EventEquiv(a, b) <=> FieldsOf(a) = FieldsOf(b)
        /\ EventLess(a, b) <=> LexLess(FieldsOf(a), FieldsOf(b))
        /\ a.type = MOUSE /\ b.type = MOUSE /\ a.state = b.state
              /\ (a.mx # b.mx \/ a.my # b.my) => ~EventEquiv(a, b)
        /\ lastCall.op = "Register" => lastCall.ev \in DOMAIN eventMappings

\* Two left-button-down events that differ in y only are both bound, next
\* to key events that differ in state only and in key code only.
C14_Witness ==
    /\ lastCall = [op |-> "Register", ev |-> MouseEvent(MOUSELDOWN, 1, 2),
                   cmd |-> CmdOk, found |-> FALSE]
    /\ {MouseEvent(MOUSELDOWN, 1, 1), KeyEvent(KEYDOWN, SDLK_a),
        KeyEvent(KEYDOWN, SDLK_a + 1), KeyEvent(KEYUP, SDLK_a + 1)}
          \subseteq DOMAIN eventMappings

(***************************************************************************)
(* C15.  At the end of a frame Video::DisableMouse is called iff the tick  *)
(* count minus the last-mouse-activity timestamp is strictly greater than  *)
(* the threshold and the interface layer is not active: once when so, not  *)
(* at all otherwise, in every frame anew, whether or not the pointer is    *)
(* hidden already.  The call hides the pointer; without it the tail leaves *)
(* the pointer as it is.                                                   *)
(***************************************************************************)
C15_FadeIffIdleAndNoFocus ==
    [][pc = "tail" /\ pc' = "idle" =>
          LET over == ticks - lastMouseMove > MouseFade
          IN /\ fade'.calls = IF over /\ fade'.ui = "inactive" THEN 1 ELSE 0
             /\ over => fade'.ui # "unread"
             /\ fade'.calls = 1 => ~mouseEnabled'
             /\ fade'.calls = 0 => mouseEnabled' = mouseEnabled]_vars

\* The pointer was hidden by an earlier frame; the motion before that is
\* still more than the threshold back and the hide fired again.
C15_Witness ==
    /\ pc = "idle"
    /\ lastMouseMove = 1
    /\ ticks = 3
    /\ fade = [ui |-> "inactive", calls |-> 1, was |-> FALSE]

(***************************************************************************)
(* C16.  RegisterKey changes the registry only when called with exactly 3  *)
(* arguments and UnRegisterKey only when called with exactly 2; a call     *)
(* with any other number of arguments raises a Lua error and leaves the    *)
(* registry as it was.  A call with the right number of arguments that     *)
(* raises no error registers, respectively unregisters, the key event its  *)
(* first two arguments name.                                               *)
(***************************************************************************)
C16_ArgumentCount ==
    [][scriptCall' # scriptCall =>
          LET n == Len(scriptCall'.args)
              want == IF scriptCall'.fn = "RegisterKey" THEN 3 ELSE 2
          IN /\ eventMappings' # eventMappings => n = want
             /\ n # want => /\ scriptCall'.error # ""
                            /\ eventMappings' = eventMappings
             /\ n = want /\ scriptCall'.error = "" =>
                   IF scriptCall'.fn = "RegisterKey"
                   THEN /\ lastCall'.op = "Register"
                        /\ lastCall'.ev \in DOMAIN eventMappings'
                   ELSE /\ lastCall'.op = "UnRegister"
                        /\ lastCall'.ev \notin DOMAIN eventMappings']_vars

\* UnRegisterKey("a", 1, "a"): three arguments, an error, and the binding
\* of the key-down of 'a' is still there.
C16_Witness ==
    /\ scriptCall.fn = "UnRegisterKey"
    /\ scriptCall.args = <<LuaStr("a"), LuaNum(KEYDOWN), LuaStr("a")>>
    /\ scriptCall.error # ""
    /\ KeyEvent(KEYDOWN, SDLK_a) \in DOMAIN eventMappings

(***************************************************************************)
(* Vocabulary of the translation properties: what one raw sample of Spec   *)
(* is translated to, written from the rules of the translator.             *)
(***************************************************************************)
IsPlainKeyDown(s) == s.t = "SDL_KEYDOWN" /\ s.sym # SDLK_ESCAPE
IsPlainKeyUp(s) == s.t = "SDL_KEYUP" /\ s.sym # SDLK_ESCAPE

\* No shift key is among the keys of Spec: a key is typed as its code.
SampleEvents(s) ==
    IF IsPlainKeyDown(s)
    THEN <<KeyEvent(KEYDOWN, s.sym), KeyEvent(KEYTYPED, s.sym)>>
    ELSE IF IsPlainKeyUp(s) THEN <<KeyEvent(KEYUP, s.sym)>>
    ELSE IF s.t = "SDL_MOUSEBUTTONDOWN" /\ s.button = SDL_BUTTON_LEFT
         THEN <<MouseEvent(MOUSELDOWN, s.x, s.y)>>
         ELSE <<>>

RECURSIVE SamplesEvents(_)
SamplesEvents(ss) ==
    IF ss = <<>> THEN <<>>
    ELSE SampleEvents(Head(ss)) \o SamplesEvents(Tail(ss))

\* The Held events of the keys whose latest raw transition is a key-down.
DownKeysHeld ==
    IF lastTransition[SDLK_a] = "down"
    THEN <<KeyEvent(KEYPRESSED, SDLK_a)>>
    ELSE <<>>

TypedCount(evs) ==
    Cardinality({i \in 1..Len(evs) : evs[i].type = KEY /\ evs[i].state = KEYTYPED})

PlainKeyDownCount(ss) == Cardinality({i \in 1..Len(ss) : IsPlainKeyDown(ss[i])})

(***************************************************************************)
(* C17.  No event persists across frames.  The list is empty when Update   *)
(* has returned and when the next poll loop starts, whatever the stages    *)
(* removed; the list handed to the stages has exactly as many events as    *)
(* this frame's samples and held keys give, and what a later stage sees is *)
(* a sub-list of it.                                                       *)
(***************************************************************************)
C17_NoEventPersists ==
    /\ pc = "idle" => events = <<>>
    /\ pc = "poll" /\ samples = <<>> => events = <<>>
    /\ pc = "poll" => Len(events) = Len(SamplesEvents(samples))
    /\ Built =>
          /\ Len(translated) = Len(SamplesEvents(samples)) + Cardinality(heldKeys)
          /\ IsSubSeq(events, translated)

\* A second frame is about to poll: 'a' is held since an earlier frame,
\* whose list had its Down, Typed and Held events, and the list is empty.
C17_Witness ==
    /\ pc = "poll"
    /\ samples = <<>>
    /\ heldKeys = {SDLK_a}
    /\ events = <<>>

(***************************************************************************)
(* C18.  The list handed to the first stage is, in this order: the events  *)
(* of the frame's samples in the samples' arrival order, then the Held     *)
(* events, one for each key whose latest raw transition (this frame's      *)
(* included) is a key-down.                                                *)
(***************************************************************************)
C18_ArrivalOrderThenHeld ==
    Built => translated = SamplesEvents(samples) \o DownKeysHeld

\* A click, then the key-down of 'a': the Held event of 'a' comes last.
C18_Witness ==
    /\ pc = "ui"
    /\ samples = <<SdlMouseButtonDown(SDL_BUTTON_LEFT, 1, 1), SdlKeyDown(SDLK_a)>>
    /\ events = <<MouseEvent(MOUSELDOWN, 1, 1), KeyEvent(KEYDOWN, SDLK_a),
                  KeyEvent(KEYTYPED, SDLK_a), KeyEvent(KEYPRESSED, SDLK_a)>>

(***************************************************************************)
(* C19.  A raw key-down for a key k other than escape appends              *)
(* KeyEvent{k, Down}, then exactly one Typed event, and marks k held.  No  *)
(* other step of the frame (key-up, escape, mouse sample, Held synthesis)  *)
(* changes the number of Typed events, so the list handed to the stages    *)
(* has as many Typed events as the frame has raw key-downs of non-escape   *)
(* keys.                                                                   *)
(***************************************************************************)
C19_OneTypedPerKeyDown ==
    [][/\ \A k \in TypedKeys :
             KeyDownStep(k) =>
                 /\ Len(events') = Len(events) + 2
                 /\ SubSeq(events', 1, Len(events)) = events
                 /\ events'[Len(events) + 1] = KeyEvent(KEYDOWN, k)
                 /\ events'[Len(events) + 2].type = KEY
                 /\ events'[Len(events) + 2].state = KEYTYPED
                 /\ k \in heldKeys'
       /\ pc = "poll" /\ (pc' # "poll" \/ ~IsPlainKeyDown(samples'[Len(samples')])) =>
             TypedCount(events') = TypedCount(events)
       /\ Built => TypedCount(translated) = PlainKeyDownCount(samples)]_vars

\* Two key-downs, two Typed events, with the shift key held as well.
C19_Witness ==
    /\ pc = "tail"
    /\ samples = <<SdlKeyDown(SDLK_LSHIFT), SdlKeyDown(SDLK_SLASH)>>
    /\ TypedCount(translated) = 2
    /\ Len(translated) = 6

(***************************************************************************)
(* C20.  The held table is all-false before any raw transition; a step     *)
(* changes it only by handling a raw key-down (the flag of the key is set) *)
(* or a raw key-up (the flag is cleared): mouse samples, Held synthesis,   *)
(* the stages and Register / Unregister leave it as it is.  So the flag of *)
(* a non-escape key is true iff its most recent raw transition is a        *)
(* key-down, and the flag of escape is never true.                         *)
(***************************************************************************)
HeldMatchesTransitions(held, last) ==
    /\ \A k \in PlainKeys : k \in held <=> last[k] = "down"
    /\ SDLK_ESCAPE \notin held

C20_HeldOnlyByKeyTransitions ==
    [][/\ HeldMatchesTransitions(heldKeys, lastTransition)
       /\ HeldMatchesTransitions(heldKeys', lastTransition')
       /\ heldKeys' # heldKeys =>
             /\ pc = "poll"
             /\ \E k \in PlainKeys :
                   \/ /\ samples' = Append(samples, SdlKeyDown(k))
                      /\ heldKeys' = heldKeys \cup {k}
                   \/ /\ samples' = Append(samples, SdlKeyUp(k))
                      /\ heldKeys' = heldKeys \ {k}]_vars

\* Between frames, after a Register call: 'a' went down in an earlier frame
\* and is still marked held.
C20_Witness ==
    /\ pc = "idle"
    /\ lastCall.op = "Register"
    /\ lastTransition[SDLK_a] = "down"
    /\ heldKeys = {SDLK_a}

(***************************************************************************)
(* Vocabulary of the mouse properties.                                     *)
(***************************************************************************)
\* The step is the poll loop's handling of the raw sample s.
SampleStep(s) == pc = "poll" /\ samples' = Append(samples, s)

\* The mouse sub-state of a button transition, by button id 1..5:
\* left, middle, right, wheel-up, wheel-down.
ButtonDownState == <<MOUSELDOWN, MOUSEMDOWN, MOUSERDOWN>>
ButtonUpState == <<MOUSELUP, MOUSEMUP, MOUSERUP, MOUSEWUP, MOUSEWDOWN>>

IsUnknownButton(s) ==
    s.t \in {"SDL_MOUSEBUTTONDOWN", "SDL_MOUSEBUTTONUP"}
    /\ s.button = SDL_BUTTON_UNKNOWN

C22_UnknownButtonDropped ==
    [][\A s \in MouseSampleSet :
          SampleStep(s) =>
              /\ IsUnknownButton(s) =>
                    /\ events' = events
                    /\ quitSignal' = quitSignal
                    /\ heldKeys' = heldKeys
                    /\ lastMouseMove' = lastMouseMove
                    /\ mouseEnabled' = mouseEnabled
                    /\ eventMappings' = eventMappings
                    /\ pc' = "poll"
              /\ samples # <<>> /\ IsUnknownButton(samples[Len(samples)])
                    /\ s.t = "SDL_MOUSEMOTION" =>
                    events' = Append(events, MouseEvent(MOUSEMOTION, s.x, s.y))]_vars

\* An unknown button went down, then the mouse moved: the list holds the
\* Motion event only.
C22_Witness ==
    /\ pc = "tail"
    /\ samples = <<SdlMouseButtonDown(SDL_BUTTON_UNKNOWN, 1, 2), SdlMouseMotion(1, 2)>>
    /\ translated = <<MouseEvent(MOUSEMOTION, 1, 2)>>
    /\ ~quitSignal

C24_RunReportsOutcome ==
    pc = "tail" =>
        /\ Len(luaReturns) = Len(luaRequests)
        /\ \A i \in 1..Len(luaReturns) :
              luaReturns[i] <=> (luaInitialized /\ luaRequests[i].cmd # CmdBad)

(***************************************************************************)
(* C25.  Update returns true iff the samples of the frame contain an       *)
(* escape key-down, an escape key-up or a window-close request.  Within    *)
(* the frame the flag changes only at the poll step of such a sample, which*)
(* sets it: a sample of another key or of the mouse, a dispatch stage and  *)
(* the script commands a stage runs leave it as it was.                    *)
(***************************************************************************)
QuitSamples == {SdlKeyDown(SDLK_ESCAPE), SdlKeyUp(SDLK_ESCAPE), SdlQuit}

C25_ReturnIffQuitSample ==
    [][/\ pc = "tail" /\ pc' = "idle" =>
             (quitSignal' <=> \E i \in 1..Len(samples) : samples[i] \in QuitSamples)
       /\ pc # "idle" /\ quitSignal' # quitSignal =>
             /\ quitSignal'
             /\ \E s \in QuitSamples : SampleStep(s)
       /\ \A s \in SampleSet \ QuitSamples : SampleStep(s) => quitSignal' = quitSignal
       /\ pc = "lua" => quitSignal' = quitSignal]_vars

\* An escape key-up and a click: the flag is still set after the command bound
\* to the click has run.
C25_Witness ==
    /\ pc = "tail"
    /\ samples = <<SdlKeyUp(SDLK_ESCAPE), SdlMouseButtonDown(SDL_BUTTON_LEFT, 1, 1)>>
    /\ Len(luaRequests) = 1
    /\ quitSignal

(***************************************************************************)
(* C26.  In every reachable state the escape key is not marked held, no    *)
(* key event of the frame's list (Down, Up, Held or Typed) has the escape  *)
(* key code, and no command has been run for a key event with the escape   *)
(* key code, whatever is bound to it.                                      *)
(***************************************************************************)
IsEscapeKeyEvent(e) == e.type = KEY /\ e.key = SDLK_ESCAPE

C26_EscapeNeverAnEvent ==
    /\ SDLK_ESCAPE \notin heldKeys
    /\ \A i \in 1..Len(events) : ~IsEscapeKeyEvent(events[i])
    /\ \A i \in 1..Len(translated) : ~IsEscapeKeyEvent(translated[i])
    /\ \A i \in 1..Len(luaRequests) : ~IsEscapeKeyEvent(luaRequests[i].ev)

\* Escape went down and up in a frame while a command was bound to its
\* key-down: the list stayed empty and nothing was run.
C26_Witness ==
    /\ pc = "tail"
    /\ samples = <<SdlKeyDown(SDLK_ESCAPE), SdlKeyUp(SDLK_ESCAPE)>>
    /\ KeyEvent(KEYDOWN, SDLK_ESCAPE) \in DOMAIN eventMappings
    /\ translated = <<>>
    /\ luaRequests = <<>>

(***************************************************************************)
(* C27.  Key-down is not de-duplicated against the held table.  A raw      *)
(* key-down for a key k other than escape that is already marked held      *)
(* appends KeyEvent{k, Down} and then a Typed event and leaves k held.  A  *)
(* frame with n raw key-downs for k therefore has n Down events and n      *)
(* Typed events for k in its list, and, when n >= 1 and no key-up for k    *)
(* follows the last of them, exactly one Held event for k.                 *)
(***************************************************************************)
RepeatedKeyDowns(ss, k) ==
    LET tr == KeyTransitions(ss, k)
    IN Len(tr) >= 1 /\ tr[Len(tr)] = SdlKeyDown(k)

C27_KeyDownNotDeduplicated ==
    [][\A k \in PlainKeys :
          /\ KeyDownStep(k) /\ k \in heldKeys =>
                /\ AppendedDownTyped(k, k)
                /\ k \in heldKeys'
          /\ Built =>
                LET n == Count(samples, SdlKeyDown(k))
                IN /\ Count(translated, KeyEvent(KEYDOWN, k)) = n
                   /\ Count(translated, KeyEvent(KEYTYPED, k)) = n
                   /\ RepeatedKeyDowns(samples, k) =>
                         Count(translated, KeyEvent(KEYPRESSED, k)) = 1]_vars

\* The key-down of 'a' arrived twice in one frame, the second time while 'a'
\* was marked held: two Down, two Typed, one Held.
C27_Witness ==
    /\ pc = "tail"
    /\ samples = <<SdlKeyDown(SDLK_a), SdlKeyDown(SDLK_a)>>
    /\ translated = <<KeyEvent(KEYDOWN, SDLK_a), KeyEvent(KEYTYPED, SDLK_a),
                      KeyEvent(KEYDOWN, SDLK_a), KeyEvent(KEYTYPED, SDLK_a),
                      KeyEvent(KEYPRESSED, SDLK_a)>>
    /\ SDLK_a \in heldKeys

(***************************************************************************)
(* C28.  The shift state that decides a Typed character is the one in      *)
(* force when its key-down is processed.  A shift key counts as down when  *)
(* its last transition among the samples already polled in the frame is a  *)
(* key-down, as up when that transition is a key-up, and, with no          *)
(* transition of it polled yet in the frame, as the held table carried it  *)
(* over from the earlier frames.  The key-down of a letter or digit is     *)
(* typed shifted iff one of the two shift keys is down in that sense, and  *)
(* the samples polled after it and the Held synthesis leave the events     *)
(* already in the list as they are.                                        *)
(***************************************************************************)
ShiftDownBefore(s) ==
    LET tr == KeyTransitions(samples, s)
    IN IF tr # <<>> THEN tr[Len(tr)] = SdlKeyDown(s) ELSE s \in heldKeys

ShiftedOf(k) == IF k \in Letters THEN UpperCaseOf[k] ELSE ShiftedDigitOf[k]

C28_ShiftStateAtKeyDown ==
    [][/\ \A k \in Letters \cup Digits :
             KeyDownStep(k) =>
                 AppendedDownTyped(k, IF \E s \in ShiftKeys : ShiftDownBefore(s)
                                      THEN ShiftedOf(k)
                                      ELSE k)
       /\ pc = "poll" =>
             /\ Len(events') >= Len(events)
             /\ SubSeq(events', 1, Len(events)) = events]_vars

\* 'a' went down while the right shift key was still held from an earlier
\* frame, and the key-up of that shift key followed it in the frame: the
\* Typed character stayed 'A'.
C28_Witness ==
    /\ pc = "tail"
    /\ samples = <<SdlKeyDown(SDLK_a), SdlKeyUp(SDLK_RSHIFT)>>
    /\ translated = <<KeyEvent(KEYDOWN, SDLK_a), KeyEvent(KEYTYPED, 65),
                      KeyEvent(KEYUP, SDLK_RSHIFT), KeyEvent(KEYPRESSED, SDLK_a)>>
    /\ heldKeys = {SDLK_a}

(***************************************************************************)
(* C29.  The script stage looks each event up in the registry as it stands *)
(* when that event is reached: the requests of the stage are those of a    *)
(* front-to-back pass in which every executed command has had its effect   *)
(* on the registry (a binding removed, a binding added) before the next    *)
(* event is looked up.  The stage leaves the frame's list as it was.       *)
(***************************************************************************)
\* What a command that ran does to the registry m.
RegistryAfter(m, cmd) ==
    LET e == KeyEvent(KEYDOWN, SDLK_a)
    IN CASE cmd = CmdUnreg -> [k \in DOMAIN m \ {e} |-> m[k]]
         [] cmd = CmdReg /\ e \notin DOMAIN m ->
               [k \in DOMAIN m \cup {e} |-> IF k = e THEN CmdOk ELSE m[k]]
         [] OTHER -> m

RECURSIVE LiveRequests(_, _)
LiveRequests(evs, m) ==
    IF evs = <<>> THEN <<>>
    ELSE IF Head(evs) \in DOMAIN m
         THEN <<[ev |-> Head(evs), cmd |-> m[Head(evs)]]>>
              \o LiveRequests(Tail(evs), RegistryAfter(m, m[Head(evs)]))
         ELSE LiveRequests(Tail(evs), m)

C29_LiveRegistryLookup ==
    [][pc = "lua" /\ pc' = "tail" =>
          /\ luaRequests' = LiveRequests(events, eventMappings)
          /\ events' = events
          /\ translated' = translated]_vars

\* The key-down of 'a' arrived twice while it was bound to the command that
\* unregisters that binding: the first Down event ran it, the second found
\* no binding.
C29_Witness ==
    /\ pc = "tail"
    /\ samples = <<SdlKeyDown(SDLK_a), SdlKeyDown(SDLK_a)>>
    /\ Count(translated, KeyEvent(KEYDOWN, SDLK_a)) = 2
    /\ luaRequests = <<[ev |-> KeyEvent(KEYDOWN, SDLK_a), cmd |-> CmdUnreg]>>
    /\ KeyEvent(KEYDOWN, SDLK_a) \notin DOMAIN eventMappings

(***************************************************************************)
(* C30.  A key k other than escape that goes down and up within one frame  *)
(* has the key events Down, Typed, Up, in that order, in the frame's list. *)
(* While the last raw transition of k is a key-up (the frame of the key-up *)
(* and the frames after it), the list has no KeyEvent{k, Held} and no      *)
(* command is run for KeyEvent{k, Held}, whatever is bound to it.          *)
(***************************************************************************)
KeyEventsOf(evs, k) == SelectSeq(evs, LAMBDA e : e.type = KEY /\ e.key = k)

C30_TapYieldsNoHeld ==
    \A k \in PlainKeys :
        Built =>
            /\ KeyTransitions(samples, k) = <<SdlKeyDown(k), SdlKeyUp(k)>> =>
                  KeyEventsOf(translated, k) =
                      <<KeyEvent(KEYDOWN, k), KeyEvent(KEYTYPED, k), KeyEvent(KEYUP, k)>>
            /\ lastTransition[k] = "up" =>
                  /\ Count(translated, KeyEvent(KEYPRESSED, k)) = 0
                  /\ RequestsFor(luaRequests, KeyEvent(KEYPRESSED, k)) = <<>>

\* 'a' was tapped within the frame while a command was bound to its Held
\* event only: three events, and the script stage ran nothing.
C30_Witness ==
    /\ pc = "tail"
    /\ samples = <<SdlKeyDown(SDLK_a), SdlKeyUp(SDLK_a)>>
    /\ translated = <<KeyEvent(KEYDOWN, SDLK_a), KeyEvent(KEYTYPED, SDLK_a),
                      KeyEvent(KEYUP, SDLK_a)>>
    /\ DOMAIN eventMappings = {KeyEvent(KEYPRESSED, SDLK_a)}
    /\ luaRequests = <<>>

====
